---- MODULE Spec2Model ----
(***************************************************************************)
(* State-machine model of src/app.py: load_and_clean_csv (the trade        *)
(* ledger), get_current_holdings (the FIFO replay that builds the lots of  *)
(* every symbol), calculate_selling_price (the pricing query) and the two  *)
(* pages of the app that read the lots.                                    *)
(*                                                                         *)
(* Numbers.  Quantities are integers (shares).  Money is counted in        *)
(* hundredths of a rupee, so that round(x, 2) is a rounding to an integer; *)
(* arithmetic is exact, the error of binary floating point is not          *)
(* modelled.                                                               *)
(***************************************************************************)
EXTENDS Integers, Sequences, FiniteSets, TLC

VARIABLES
    pc,                \* where the program stands
    urls_data,         \* the rows of the CSV files behind csv_urls
    df,                \* the DataFrame of trades
    holdings,          \* get_current_holdings: symbol -> transactions
    current_holdings,  \* get_current_holdings: symbol -> fifo
    symbol_i,          \* position of the loop over holdings.items()
    t_i,               \* position of the loop over transactions
    fifo,              \* the FIFO queue being built
    qty_to_remove,     \* the local of the SELL branch
    call,              \* the arguments of calculate_selling_price
    result,            \* what the last call returned or raised
    calls,             \* calls of calculate_selling_price made so far
    screen             \* what the page shows

vars == <<pc, urls_data, df, holdings, current_holdings, symbol_i, t_i, fifo,
          qty_to_remove, call, result, calls, screen>>

(***************************************************************************)
(* Bounds and input domains                                                *)
(***************************************************************************)
MaxRows == 3
MaxLots == 2
MaxCalls == 2

Symbols == {"INFY", "TCS"}
Dates == {1, 2}
TradeTypes == {"BUY", "sell"}
RawTradeTypes == {"BUY", "sell", "bonus"}
Quantities == {1, 2}
RawQuantities == {-1, 0, 1, 2}
Prices == {1000, 2075}
Profits == {-50, 0, 10, 25}
UIProfits == {10}

Min(a, b) == IF a < b THEN a ELSE b

(***************************************************************************)
(* Python values                                                           *)
(***************************************************************************)
\* str.lower() on the trade types of the model
Lower(s) ==
    CASE s = "BUY" -> "buy"
      [] s = "Buy" -> "buy"
      [] s = "SELL" -> "sell"
      [] s = "Sell" -> "sell"
      [] OTHER -> s

\* round(n / d, 2) of an amount n / d counted in hundredths: to the nearest
\* integer, a tie to the even one (Python 3's round)
round(n, d) ==
    LET nn == IF d < 0 THEN -n ELSE n
        dd == IF d < 0 THEN -d ELSE d
        q == nn \div dd
        r == nn % dd
    IN  IF 2 * r < dd THEN q
        ELSE IF 2 * r > dd THEN q + 1
        ELSE IF q % 2 = 0 THEN q ELSE q + 1

\* a dict: its keys in insertion order and its values
EmptyDict == [keys |-> <<>>, vals |-> <<>>]
DictHas(d, k) == k \in DOMAIN d.vals
DictSet(d, k, v) ==
    IF DictHas(d, k)
    THEN [d EXCEPT !.vals[k] = v]
    ELSE [keys |-> Append(d.keys, k), vals |-> (k :> v) @@ d.vals]

RECURSIVE SumQty(_)
SumQty(s) == IF s = <<>> THEN 0 ELSE Head(s).qty + SumQty(Tail(s))

RECURSIVE SumCost(_)
SumCost(s) == IF s = <<>> THEN 0 ELSE Head(s).qty * Head(s).price + SumCost(Tail(s))

(***************************************************************************)
(* load_and_clean_csv                                                      *)
(***************************************************************************)
RowsOver(types, quantities, dates) ==
    [Symbol : Symbols, TradeDate : dates, TradeType : types,
     Quantity : quantities, Price : Prices]

SeqsUpTo(S, n) == UNION {[1..k -> S] : k \in 0..n}

RECURSIVE Flatten(_)
Flatten(files) == IF files = <<>> THEN <<>> ELSE Head(files) \o Flatten(Tail(files))

\* pd.concat(dfs, ignore_index=True): the rows of all files, labelled 0..n-1
concat(files) ==
    LET rows == Flatten(files)
    IN  [i \in 1..Len(rows) |->
            [Index |-> i - 1, Symbol |-> rows[i].Symbol, TradeDate |-> rows[i].TradeDate,
             TradeType |-> rows[i].TradeType, Quantity |-> rows[i].Quantity,
             Price |-> rows[i].Price]]

\* DataFrame.sort_values('Trade Date') with the default kind='quicksort',
\* which is not a stable sort: any arrangement of the rows in ascending
\* Trade Date may come out
sort_values(frame) ==
    LET n == Len(frame)
        perms == {p \in [1..n -> 1..n] : \A i, j \in 1..n : i # j => p[i] # p[j]}
    IN  {[i \in 1..n |-> frame[p[i]]] : p \in
            {p \in perms : \A i, j \in 1..n :
                i < j => frame[p[i]].TradeDate <= frame[p[j]].TradeDate}}

load_and_clean_csv(files) == sort_values(concat(files))

(***************************************************************************)
(* get_current_holdings                                                    *)
(***************************************************************************)
\* lines 103-108: one row of df.iterrows()
Transaction(row) ==
    [qty |-> IF Lower(row.TradeType) = "buy" THEN row.Quantity ELSE -row.Quantity,
     price |-> row.Price, date |-> row.TradeDate]

RECURSIVE GroupRows(_, _)
GroupRows(d, rows) ==
    IF rows = <<>> THEN d
    ELSE LET row == Head(rows)
             old == IF DictHas(d, row.Symbol) THEN d.vals[row.Symbol] ELSE <<>>
         IN  GroupRows(DictSet(d, row.Symbol, Append(old, Transaction(row))), Tail(rows))

\* the net quantity with a full exit made final: a symbol once sold down to
\* zero counts as not held whatever is bought later
net_qty_Blacklist(transactions) ==
    IF \E k \in 1..Len(transactions) : SumQty(SubSeq(transactions, 1, k)) = 0
    THEN 0
    ELSE SumQty(transactions)

\* the net quantity with the sign of the sells forgotten
net_qty_Unsigned(transactions) ==
    LET RECURSIVE SumAbs(_)
        SumAbs(ts) == IF ts = <<>> THEN 0
                      ELSE (IF Head(ts).qty < 0 THEN -Head(ts).qty ELSE Head(ts).qty)
                           + SumAbs(Tail(ts))
    IN  SumAbs(transactions)

\* line 113
net_qty(transactions) == SumQty(transactions)

\* the while loop with the remainder of a sell forgotten once a batch is popped
RECURSIVE RemoveFromFifo_DropRest(_, _)
RemoveFromFifo_DropRest(queue, to_remove) ==
    IF to_remove > 0 /\ queue # <<>>
    THEN LET batch == Head(queue)
         IN  IF batch.qty > to_remove
             THEN RemoveFromFifo_DropRest(<<[batch EXCEPT !.qty = @ - to_remove]>> \o Tail(queue), 0)
             ELSE RemoveFromFifo_DropRest(Tail(queue), 0)
    ELSE [fifo |-> queue, qty_to_remove |-> to_remove]

\* the while loop taking the youngest batch (fifo[-1], fifo.pop()) first
RECURSIVE RemoveFromFifo_Lifo(_, _)
RemoveFromFifo_Lifo(queue, to_remove) ==
    IF to_remove > 0 /\ queue # <<>>
    THEN LET batch == queue[Len(queue)]
             front == SubSeq(queue, 1, Len(queue) - 1)
         IN  IF batch.qty > to_remove
             THEN RemoveFromFifo_Lifo(Append(front, [batch EXCEPT !.qty = @ - to_remove]), 0)
             ELSE RemoveFromFifo_Lifo(front, to_remove - batch.qty)
    ELSE [fifo |-> queue, qty_to_remove |-> to_remove]

\* the while loop with >= for >: a batch consumed exactly stays, holding 0
RECURSIVE RemoveFromFifo_KeepEmpty(_, _)
RemoveFromFifo_KeepEmpty(queue, to_remove) ==
    IF to_remove > 0 /\ queue # <<>>
    THEN LET batch == Head(queue)
         IN  IF batch.qty >= to_remove
             THEN RemoveFromFifo_KeepEmpty(<<[batch EXCEPT !.qty = @ - to_remove]>> \o Tail(queue), 0)
             ELSE RemoveFromFifo_KeepEmpty(Tail(queue), to_remove - batch.qty)
    ELSE [fifo |-> queue, qty_to_remove |-> to_remove]

\* lines 125-132: the while loop of the SELL branch
RECURSIVE RemoveFromFifo(_, _)
RemoveFromFifo(queue, to_remove) ==
    IF to_remove > 0 /\ queue # <<>>
    THEN LET batch == Head(queue)
         IN  IF batch.qty > to_remove
             THEN RemoveFromFifo(<<[batch EXCEPT !.qty = @ - to_remove]>> \o Tail(queue), 0)
             ELSE RemoveFromFifo(Tail(queue), to_remove - batch.qty)
    ELSE [fifo |-> queue, qty_to_remove |-> to_remove]

\* lines 119-132: one transaction applied to the queue
ApplyTransaction(queue, t, local) ==
    IF t.qty > 0
    THEN [fifo |-> Append(queue, [qty |-> t.qty, price |-> t.price, date |-> t.date]),
          qty_to_remove |-> local]
    ELSE RemoveFromFifo(queue, -t.qty)

\* lines 118-132: the queue built from the transactions of one symbol
RECURSIVE ReplayFrom(_, _, _)
ReplayFrom(queue, ts, local) ==
    IF ts = <<>> THEN queue
    ELSE LET r == ApplyTransaction(queue, Head(ts), local)
         IN  ReplayFrom(r.fifo, Tail(ts), r.qty_to_remove)

Replay(ts) == ReplayFrom(<<>>, ts, 0)

\* lines 111-134: the loop over holdings.items(), from key k on
RECURSIVE ForSymbols(_, _, _)
ForSymbols(h, k, current) ==
    IF k > Len(h.keys) THEN current
    ELSE LET ts == h.vals[h.keys[k]]
         IN  IF net_qty(ts) <= 0
             THEN ForSymbols(h, k + 1, current)
             ELSE ForSymbols(h, k + 1, DictSet(current, h.keys[k], Replay(ts)))

\* lines 100-135: the function as a whole
get_current_holdings(frame) == ForSymbols(GroupRows(EmptyDict, frame), 1, EmptyDict)

(***************************************************************************)
(* calculate_selling_price                                                 *)
(***************************************************************************)
\* the for loop taking every batch whole (batch_qty for min(batch_qty, qty_needed))
RECURSIVE ForBatches_Whole(_, _, _, _, _)
ForBatches_Whole(fifo_batches, i, qty_needed, cost_price_total, qty_counted) ==
    IF i > Len(fifo_batches) \/ qty_needed <= 0
    THEN [fifo_batches |-> fifo_batches, cost_price_total |-> cost_price_total,
          qty_counted |-> qty_counted]
    ELSE LET batch == fifo_batches[i]
             qty_from_batch == batch.qty
         IN  ForBatches_Whole(fifo_batches, i + 1, qty_needed - qty_from_batch,
                              cost_price_total + qty_from_batch * batch.price,
                              qty_counted + qty_from_batch)

\* the for loop consuming what it counts (batch['qty'] -= qty_from_batch)
RECURSIVE ForBatches_Consume(_, _, _, _, _)
ForBatches_Consume(fifo_batches, i, qty_needed, cost_price_total, qty_counted) ==
    IF i > Len(fifo_batches) \/ qty_needed <= 0
    THEN [fifo_batches |-> fifo_batches, cost_price_total |-> cost_price_total,
          qty_counted |-> qty_counted]
    ELSE LET batch == fifo_batches[i]
             qty_from_batch == Min(batch.qty, qty_needed)
         IN  ForBatches_Consume([fifo_batches EXCEPT ![i].qty = @ - qty_from_batch],
                                i + 1, qty_needed - qty_from_batch,
                                cost_price_total + qty_from_batch * batch.price,
                                qty_counted + qty_from_batch)

\* lines 142-149: the for loop over fifo_batches, from batch i on.  The list
\* is the caller's own (passed by reference): the loop's result holds it as
\* the loop leaves it.
RECURSIVE ForBatches(_, _, _, _, _)
ForBatches(fifo_batches, i, qty_needed, cost_price_total, qty_counted) ==
    IF i > Len(fifo_batches) \/ qty_needed <= 0
    THEN [fifo_batches |-> fifo_batches, cost_price_total |-> cost_price_total,
          qty_counted |-> qty_counted]
    ELSE LET batch == fifo_batches[i]
             qty_from_batch == Min(batch.qty, qty_needed)
         IN  ForBatches(fifo_batches, i + 1, qty_needed - qty_from_batch,
                        cost_price_total + qty_from_batch * batch.price,
                        qty_counted + qty_from_batch)

\* the function with the clamp of the page's widget (min_value=0.0) moved
\* into it: a negative profit_pct counts as 0
calculate_selling_price_Clamped(fifo_batches, qty_to_sell, profit_pct) ==
    LET loop == ForBatches(fifo_batches, 1, qty_to_sell, 0, 0)
        pct == IF profit_pct < 0 THEN 0 ELSE profit_pct
    IN  IF loop.qty_counted < qty_to_sell
        THEN [raised |-> "ValueError",
              args |-> <<"Not enough shares to sell that quantity.">>,
              value |-> 0, fifo_batches |-> loop.fifo_batches]
        ELSE IF qty_to_sell = 0
        THEN [raised |-> "ZeroDivisionError", args |-> <<"division by zero">>,
              value |-> 0, fifo_batches |-> loop.fifo_batches]
        ELSE [raised |-> "", args |-> <<>>,
              value |-> round(loop.cost_price_total * (100 + pct), 100 * qty_to_sell),
              fifo_batches |-> loop.fifo_batches]

\* lines 137-159.  raised is "" when the call returns; value is the price
\* returned, in hundredths.
calculate_selling_price(fifo_batches, qty_to_sell, profit_pct) ==
    LET loop == ForBatches(fifo_batches, 1, qty_to_sell, 0, 0)
    IN  IF loop.qty_counted < qty_to_sell
        THEN [raised |-> "ValueError",
              args |-> <<"Not enough shares to sell that quantity.">>,
              value |-> 0, fifo_batches |-> loop.fifo_batches]
        ELSE IF qty_to_sell = 0
        THEN [raised |-> "ZeroDivisionError", args |-> <<"division by zero">>,
              value |-> 0, fifo_batches |-> loop.fifo_batches]
        ELSE [raised |-> "", args |-> <<>>,
              value |-> round(loop.cost_price_total * (100 + profit_pct),
                              100 * qty_to_sell),
              fifo_batches |-> loop.fifo_batches]

(***************************************************************************)
(* The pages                                                               *)
(***************************************************************************)
Blank == [kind |-> "none", table |-> <<>>, stock |-> "", qty |-> 0,
          selling_price |-> 0, profit_pct |-> 0, text |-> ""]

\* the row with the plain mean of the batch prices for the weighted one
PortfolioRow_PlainMean(stock, batches) ==
    LET total_qty == SumQty(batches)
        RECURSIVE SumPrice(_)
        SumPrice(b) == IF b = <<>> THEN 0 ELSE Head(b).price + SumPrice(Tail(b))
    IN  [Stock |-> stock, Quantity |-> total_qty,
         AvgBuyPrice |-> round(SumPrice(batches), Len(batches))]

\* lines 189-196: one row of the portfolio table
PortfolioRow(stock, batches) ==
    LET total_qty == SumQty(batches)
    IN  [Stock |-> stock, Quantity |-> total_qty,
         AvgBuyPrice |-> round(SumCost(batches), total_qty)]

portfolio_data(holding) ==
    [k \in 1..Len(holding.keys) |->
        PortfolioRow(holding.keys[k], holding.vals[holding.keys[k]])]

NoCall == [stock |-> "", qty_to_sell |-> 0, profit_pct |-> 0]
NoResult == [raised |-> "none", args |-> <<>>, value |-> 0]

(***************************************************************************)
(* Initial states                                                          *)
(***************************************************************************)
\* a DataFrame as load_and_clean_csv returns it, one trade a day
Frames(types, quantities) ==
    {[i \in 1..Len(rows) |->
        [Index |-> i - 1, Symbol |-> rows[i].Symbol, TradeDate |-> i,
         TradeType |-> rows[i].TradeType, Quantity |-> rows[i].Quantity,
         Price |-> rows[i].Price]] :
     rows \in SeqsUpTo(RowsOver(types, quantities, {0}), MaxRows)}

Idle ==
    /\ holdings = EmptyDict
    /\ current_holdings = EmptyDict
    /\ symbol_i = 0
    /\ t_i = 0
    /\ fifo = <<>>
    /\ qty_to_remove = 0
    /\ call = NoCall
    /\ result = NoResult
    /\ calls = 0
    /\ screen = Blank

\* line 176 is about to run on a ledger of well-formed trades
Init ==
    /\ pc = "holdings"
    /\ urls_data = <<>>
    /\ df \in Frames(TradeTypes, Quantities)
    /\ Idle

\* line 176 is about to run on a ledger of rows as pandas parses them
InitRaw ==
    /\ pc = "holdings"
    /\ urls_data = <<>>
    /\ df \in Frames(RawTradeTypes, RawQuantities)
    /\ Idle

\* line 176 is about to run on a ledger whose trade types are free text
InitTypes ==
    /\ pc = "holdings"
    /\ urls_data = <<>>
    /\ df \in Frames(RawTradeTypes, Quantities)
    /\ Idle

\* line 176 is about to run on a ledger of BUY and SELL rows of any quantity
InitQuantities ==
    /\ pc = "holdings"
    /\ urls_data = <<>>
    /\ df \in Frames(TradeTypes, RawQuantities)
    /\ Idle

\* line 171 is about to run
InitLoad ==
    /\ pc = "load"
    /\ \E rows \in SeqsUpTo(RowsOver(TradeTypes, {1}, Dates), MaxRows) :
          \E a, b \in 0..Len(rows) :
             /\ a <= b
             /\ urls_data = <<SubSeq(rows, 1, a), SubSeq(rows, a + 1, b),
                              SubSeq(rows, b + 1, Len(rows))>>
    /\ df = <<>>
    /\ Idle

\* the lists calculate_selling_price may be given
Batches ==
    {[i \in 1..Len(s) |-> [qty |-> s[i].qty, price |-> s[i].price, date |-> i]] :
     s \in SeqsUpTo([qty : Quantities, price : Prices], MaxLots)}

\* a call of calculate_selling_price is about to be made
InitPrice ==
    /\ pc = "price"
    /\ urls_data = <<>>
    /\ df = <<>>
    /\ holdings = EmptyDict
    /\ \E f \in [Symbols -> Batches] :
          current_holdings = [keys |-> <<"INFY", "TCS">>, vals |-> f]
    /\ symbol_i = 0
    /\ t_i = 0
    /\ fifo = <<>>
    /\ qty_to_remove = 0
    /\ \E q \in 0..(SumQty(current_holdings.vals["INFY"]) + 2), p \in Profits :
          call = [stock |-> "INFY", qty_to_sell |-> q, profit_pct |-> p]
    /\ result = NoResult
    /\ calls = 0
    /\ screen = Blank

(***************************************************************************)
(* Actions                                                                 *)
(***************************************************************************)
\* lines 170-174
Load ==
    /\ pc = "load"
    /\ df' \in load_and_clean_csv(urls_data)
    /\ pc' = "loaded"
    /\ UNCHANGED <<urls_data, holdings, current_holdings, symbol_i, t_i, fifo,
                   qty_to_remove, call, result, calls, screen>>

\* lines 101-108
GroupTransactions ==
    /\ pc = "holdings"
    /\ holdings' = GroupRows(EmptyDict, df)
    /\ current_holdings' = EmptyDict
    /\ symbol_i' = 1
    /\ pc' = "symbols"
    /\ UNCHANGED <<urls_data, df, t_i, fifo, qty_to_remove, call, result, calls, screen>>

symbol == holdings.keys[symbol_i]
transactions == holdings.vals[symbol]

\* lines 112-115
SkipSymbol ==
    /\ pc = "symbols"
    /\ symbol_i <= Len(holdings.keys)
    /\ net_qty(transactions) <= 0
    /\ symbol_i' = symbol_i + 1
    /\ UNCHANGED <<pc, urls_data, df, holdings, current_holdings, t_i, fifo,
                   qty_to_remove, call, result, calls, screen>>

\* the replay of a symbol begun on the queue the symbol before it left
\* (fifo = [] set once, before the loop over the symbols)
BeginReplay_SharedQueue ==
    /\ pc = "symbols"
    /\ symbol_i <= Len(holdings.keys)
    /\ net_qty(transactions) > 0
    /\ t_i' = 1
    /\ pc' = "replay"
    /\ UNCHANGED <<urls_data, df, holdings, current_holdings, symbol_i, fifo,
                   qty_to_remove, call, result, calls, screen>>

\* lines 112-118
BeginReplay ==
    /\ pc = "symbols"
    /\ symbol_i <= Len(holdings.keys)
    /\ net_qty(transactions) > 0
    /\ fifo' = <<>>
    /\ t_i' = 1
    /\ pc' = "replay"
    /\ UNCHANGED <<urls_data, df, holdings, current_holdings, symbol_i,
                   qty_to_remove, call, result, calls, screen>>

\* lines 119-132
ReplayTransaction ==
    /\ pc = "replay"
    /\ t_i <= Len(transactions)
    /\ LET r == ApplyTransaction(fifo, transactions[t_i], qty_to_remove)
       IN  /\ fifo' = r.fifo
           /\ qty_to_remove' = r.qty_to_remove
    /\ t_i' = t_i + 1
    /\ UNCHANGED <<pc, urls_data, df, holdings, current_holdings, symbol_i,
                   call, result, calls, screen>>

\* line 134
StoreHolding ==
    /\ pc = "replay"
    /\ t_i > Len(transactions)
    /\ current_holdings' = DictSet(current_holdings, symbol, fifo)
    /\ symbol_i' = symbol_i + 1
    /\ pc' = "symbols"
    /\ UNCHANGED <<urls_data, df, holdings, t_i, fifo, qty_to_remove, call,
                   result, calls, screen>>

\* lines 135, 176-180
ReturnHoldings ==
    /\ pc = "symbols"
    /\ symbol_i > Len(holdings.keys)
    /\ pc' = "ready"
    /\ UNCHANGED <<urls_data, df, holdings, current_holdings, symbol_i, t_i, fifo,
                   qty_to_remove, call, result, calls, screen>>

available_stocks == current_holdings.keys

\* lines 183-198
ViewPortfolio ==
    /\ pc = "ready"
    /\ screen' = IF available_stocks = <<>>
                 THEN [Blank EXCEPT !.kind = "info",
                                    !.text = "You have no active holdings."]
                 ELSE [Blank EXCEPT !.kind = "table",
                                    !.table = portfolio_data(current_holdings)]
    /\ UNCHANGED <<pc, urls_data, df, holdings, current_holdings, symbol_i, t_i,
                   fifo, qty_to_remove, call, result, calls>>

\* lines 204-206
NoStocksToSell ==
    /\ pc = "ready"
    /\ available_stocks = <<>>
    /\ screen' = [Blank EXCEPT !.kind = "info", !.text = "No stocks available to sell."]
    /\ UNCHANGED <<pc, urls_data, df, holdings, current_holdings, symbol_i, t_i,
                   fifo, qty_to_remove, call, result, calls>>

\* lines 208-218: the inputs the widgets allow, and the button
CalculateSellingPrice ==
    /\ pc = "ready"
    /\ available_stocks # <<>>
    /\ \E k \in 1..Len(available_stocks), profit_pct \in UIProfits :
         LET stock == available_stocks[k]
             max_qty == SumQty(current_holdings.vals[stock])
         IN  \E qty \in 1..max_qty :
               LET r == calculate_selling_price(current_holdings.vals[stock], qty, profit_pct)
               IN  /\ call' = [stock |-> stock, qty_to_sell |-> qty, profit_pct |-> profit_pct]
                   /\ result' = [raised |-> r.raised, args |-> r.args, value |-> r.value]
                   /\ current_holdings' = DictSet(current_holdings, stock, r.fifo_batches)
                   /\ screen' = IF r.raised = ""
                                THEN [Blank EXCEPT !.kind = "success", !.stock = stock,
                                                   !.qty = qty, !.selling_price = r.value,
                                                   !.profit_pct = profit_pct]
                                ELSE [Blank EXCEPT !.kind = "error", !.text = r.args[1]]
    /\ UNCHANGED <<pc, urls_data, df, holdings, symbol_i, t_i, fifo, qty_to_remove, calls>>

\* a direct call of calculate_selling_price with the arguments drawn
PriceCall ==
    /\ pc = "price"
    /\ calls < MaxCalls
    /\ LET r == calculate_selling_price(current_holdings.vals[call.stock],
                                        call.qty_to_sell, call.profit_pct)
       IN  /\ result' = [raised |-> r.raised, args |-> r.args, value |-> r.value]
           /\ current_holdings' = DictSet(current_holdings, call.stock, r.fifo_batches)
    /\ calls' = calls + 1
    /\ UNCHANGED <<pc, urls_data, df, holdings, symbol_i, t_i, fifo, qty_to_remove,
                   call, screen>>

Next ==
    \/ GroupTransactions
    \/ SkipSymbol
    \/ BeginReplay
    \/ ReplayTransaction
    \/ StoreHolding
    \/ ReturnHoldings
    \/ ViewPortfolio
    \/ NoStocksToSell
    \/ CalculateSellingPrice

\* get_current_holdings and the pages, on well-formed trades
Spec == Init /\ [][Next]_vars

\* the same on rows as pandas parses them
SpecRaw == InitRaw /\ [][Next]_vars

\* the same on trades of any type
SpecTypes == InitTypes /\ [][Next]_vars

\* the same on BUY and SELL rows of any quantity
SpecQuantities == InitQuantities /\ [][Next]_vars

\* load_and_clean_csv
SpecLoad == InitLoad /\ [][Load]_vars

\* calculate_selling_price
SpecPrice == InitPrice /\ [][PriceCall]_vars

(***************************************************************************)
(* What the ledger says, read off df itself                                *)
(***************************************************************************)
TradesOf(s) == SelectSeq(df, LAMBDA row : row.Symbol = s)

IsBuy(row) == Lower(row.TradeType) = "buy"
IsSell(row) == Lower(row.TradeType) = "sell"

RECURSIVE Bought(_)
Bought(rows) ==
    IF rows = <<>> THEN 0
    ELSE (IF IsBuy(Head(rows)) THEN Head(rows).Quantity ELSE 0) + Bought(Tail(rows))

RECURSIVE Sold(_)
Sold(rows) ==
    IF rows = <<>> THEN 0
    ELSE (IF IsSell(Head(rows)) THEN Head(rows).Quantity ELSE 0) + Sold(Tail(rows))

Prefix(rows, k) == SubSeq(rows, 1, k)

\* no sell of rows exceeds the shares held when it is applied
NoOversell(rows) ==
    \A k \in 1..Len(rows) : Bought(Prefix(rows, k)) - Sold(Prefix(rows, k)) >= 0

\* the trades of the symbol in replay that the loop has applied
Replayed == Prefix(TradesOf(symbol), t_i - 1)

BuysOf(rows) == SelectSeq(rows, IsBuy)

(***************************************************************************)
(* C1..C3, C10: the FIFO replay                                            *)
(***************************************************************************)
\* C1 (conservation): at every prefix of a symbol's trades that holds no
\* oversell, the quantities left in the queue add up to the buys minus the
\* sells of the prefix; so do the lots stored for the symbol.
C1_Conservation ==
    /\ pc = "replay" /\ NoOversell(Replayed)
          => SumQty(fifo) = Bought(Replayed) - Sold(Replayed)
    /\ \A s \in DOMAIN current_holdings.vals :
          NoOversell(TradesOf(s))
          => SumQty(current_holdings.vals[s]) = Bought(TradesOf(s)) - Sold(TradesOf(s))

\* a sell that takes a whole batch and part of the next has been replayed
C1_Witness ==
    /\ pc = "replay"
    /\ t_i = 4
    /\ NoOversell(Replayed)
    /\ IsSell(Replayed[3])
    /\ Replayed[3].Quantity > Replayed[1].Quantity
    /\ SumQty(fifo) = 1

\* C2 (oversell is an error), as claimed: a symbol whose replay meets a sell
\* for more than the queue holds gets no holding.
C2_OversellIsAnError ==
    pc = "ready" => \A s \in DOMAIN current_holdings.vals : NoOversell(TradesOf(s))

\* the queue is a run of the latest buys of rows, the head alone possibly
\* part consumed, each batch at its buy's price
SuffixOfBuys(queue, rows) ==
    LET buys == BuysOf(rows)
        k == Len(buys) - Len(queue)
    IN  /\ k >= 0
        /\ \A j \in 1..Len(queue) :
              /\ queue[j].price = buys[k + j].Price
              /\ queue[j].date = buys[k + j].TradeDate
              /\ queue[j].qty > 0
              /\ queue[j].qty <= buys[k + j].Quantity
              /\ j > 1 => queue[j].qty = buys[k + j].Quantity

\* C3 (FIFO order): after any replay without oversell the queue is a
\* contiguous suffix of the symbol's buys in order, every batch but the head
\* whole and every batch at its purchase price; buys 5@10, 5@20 then sell 7
\* leave one batch of 3@20.
C3_FifoOrder ==
    /\ pc = "replay" /\ NoOversell(Replayed) => SuffixOfBuys(fifo, Replayed)
    /\ \A s \in DOMAIN current_holdings.vals :
          NoOversell(TradesOf(s)) => SuffixOfBuys(current_holdings.vals[s], TradesOf(s))
    /\ Replay(<<[qty |-> 5, price |-> 1000, date |-> 1],
                [qty |-> 5, price |-> 2000, date |-> 2],
                [qty |-> -7, price |-> 3000, date |-> 3]>>)
          = <<[qty |-> 3, price |-> 2000, date |-> 2]>>

\* a sell has left the older batch gone and the younger one whole behind it
C3_Witness ==
    /\ pc = "replay"
    /\ NoOversell(Replayed)
    /\ Len(BuysOf(Replayed)) = 2
    /\ Len(Replayed) = 3
    /\ Len(fifo) = 2
    /\ fifo[1].qty < BuysOf(Replayed)[1].Quantity
    /\ fifo[1].price # fifo[2].price

\* C10 (lot monotonicity): one step of the replay leaves the price of every
\* batch as it was and its quantity no larger, holds no batch of quantity 0,
\* and adds a batch only for a buy, at the tail, with the buy's quantity and
\* price.  (In this specification every trade has a date of its own, which
\* names its batch.)
C10_LotMonotonic ==
    [][pc = "replay" /\ pc' = "replay" =>
         LET t == transactions[t_i]
         IN  /\ \A j \in 1..Len(fifo') : fifo'[j].qty > 0
             /\ \A j \in 1..Len(fifo') : \A i \in 1..Len(fifo) :
                   fifo[i].date = fifo'[j].date =>
                      /\ fifo'[j].price = fifo[i].price
                      /\ fifo'[j].qty <= fifo[i].qty
             /\ \A j \in 1..Len(fifo') :
                   (\A i \in 1..Len(fifo) : fifo[i].date # fifo'[j].date) =>
                      /\ t.qty > 0
                      /\ j = Len(fifo')
                      /\ fifo'[j] = [qty |-> t.qty, price |-> t.price, date |-> t.date]
             /\ t.qty > 0 => SubSeq(fifo', 1, Len(fifo)) = fifo
    ]_vars

\* a batch stands in the queue with less than its buy's quantity
C10_Witness ==
    /\ pc = "replay"
    /\ Len(fifo) = 2
    /\ \E i \in 1..Len(df) : df[i].TradeDate = fifo[1].date /\ df[i].Quantity > fifo[1].qty

(***************************************************************************)
(* C4..C7: the pricing query                                               *)
(***************************************************************************)
\* the batches the call of SpecPrice is given
Given == current_holdings.vals[call.stock]

\* the price of each share of the batches, the oldest share first
RECURSIVE UnitPrices(_)
UnitPrices(batches) ==
    IF batches = <<>> THEN <<>>
    ELSE [u \in 1..Head(batches).qty |-> Head(batches).price] \o UnitPrices(Tail(batches))

RECURSIVE SumSeq(_)
SumSeq(q) == IF q = <<>> THEN 0 ELSE Head(q) + SumSeq(Tail(q))

\* what the q oldest shares of the batches cost
CostOfOldest(batches, q) == SumSeq(SubSeq(UnitPrices(batches), 1, q))

Abs(x) == IF x < 0 THEN -x ELSE x

\* v is n / d rounded to the nearest integer, a tie to the even one (d > 0)
IsRounded(v, n, d) ==
    /\ 2 * Abs(v * d - n) <= d
    /\ 2 * Abs(v * d - n) = d => v % 2 = 0

\* C4 (pricing result): for a positive quantity within the quantity held the
\* call returns cost x (1 + profit/100) / quantity rounded to two decimals,
\* cost being that of the oldest shares; 10@100, 5@120, quantity 12 at 10 %
\* costs 1240 and prices at 113.67.
C4_PricingResult ==
    /\ calls >= 1 /\ call.qty_to_sell >= 1 /\ call.qty_to_sell <= SumQty(Given)
          => /\ result.raised = ""
             /\ IsRounded(result.value,
                          CostOfOldest(Given, call.qty_to_sell) * (100 + call.profit_pct),
                          100 * call.qty_to_sell)
    /\ LET lots == <<[qty |-> 10, price |-> 10000, date |-> 1],
                     [qty |-> 5, price |-> 12000, date |-> 2]>>
       IN  /\ ForBatches(lots, 1, 12, 0, 0).cost_price_total = 124000
           /\ calculate_selling_price(lots, 12, 10).raised = ""
           /\ calculate_selling_price(lots, 12, 10).value = 11367

\* a price was returned for a quantity that takes part of the second batch,
\* and the rounding had something to round
C4_Witness ==
    /\ calls >= 1
    /\ result.raised = ""
    /\ Len(Given) = 2
    /\ Given[1].price # Given[2].price
    /\ call.qty_to_sell > Given[1].qty
    /\ call.qty_to_sell < SumQty(Given)
    /\ call.profit_pct = 10
    /\ (CostOfOldest(Given, call.qty_to_sell) * 110) % (100 * call.qty_to_sell) # 0

\* C5 (the query is pure): a call, returning or raising, leaves the batches
\* of every symbol as they were, and a second call with the same arguments
\* gives what the first gave.
C5_QueryIsPure ==
    [][/\ current_holdings' = current_holdings
       /\ calls >= 1 => result' = result]_vars

\* two calls were made on two batches, the first batch counted whole
C5_Witness ==
    /\ calls = 2
    /\ Len(Given) = 2
    /\ call.qty_to_sell > Given[1].qty
    /\ result.raised = ""

\* C6 (pricing boundary), as claimed: on a non-empty list holding N shares a
\* query for N succeeds, and a query for more fails with an error that
\* carries the quantity asked for and N.
C6_Boundary ==
    calls >= 1 /\ Given # <<>> /\ call.qty_to_sell >= 1
       => /\ call.qty_to_sell <= SumQty(Given) => result.raised = ""
          /\ call.qty_to_sell > SumQty(Given) =>
                /\ result.raised # ""
                /\ \E i, j \in DOMAIN result.args :
                      /\ result.args[i] = ToString(call.qty_to_sell)
                      /\ result.args[j] = ToString(SumQty(Given))

\* C7 (round trip): the average price of every row of the portfolio table is
\* what calculate_selling_price returns for the whole quantity at 0 % profit.
C7_RoundTrip ==
    screen.kind = "table" =>
       \A k \in 1..Len(screen.table) :
          LET line == screen.table[k]
              r == calculate_selling_price(current_holdings.vals[line.Stock],
                                           line.Quantity, 0)
          IN  /\ r.raised = ""
              /\ line.AvgBuyPrice = r.value

\* the table shows a symbol held in two batches of different prices and
\* quantities, whose average is not a whole number of hundredths
C7_Witness ==
    /\ screen.kind = "table"
    /\ \E k \in 1..Len(screen.table) :
          LET lots == current_holdings.vals[screen.table[k].Stock]
          IN  /\ Len(lots) = 2
              /\ lots[1].price # lots[2].price
              /\ lots[1].qty # lots[2].qty
              /\ SumCost(lots) % SumQty(lots) # 0

(***************************************************************************)
(* C8, C9: the ledger                                                      *)
(***************************************************************************)
\* C8 (stable chronological order), as claimed: the trades come out of
\* load_and_clean_csv in ascending date, and those of one symbol on one date
\* in the order of the input.
C8_StableOrder ==
    pc = "loaded" =>
       /\ \A i, j \in 1..Len(df) : i < j => df[i].TradeDate <= df[j].TradeDate
       /\ \A s \in Symbols, d \in Dates :
             LET Same(row) == row.Symbol = s /\ row.TradeDate = d
                 Trade(rows) == [i \in 1..Len(rows) |->
                                   <<rows[i].TradeType, rows[i].Quantity, rows[i].Price>>]
             IN  Trade(SelectSeq(df, Same)) = Trade(SelectSeq(Flatten(urls_data), Same))

\* C9 (trade-side validation), as claimed: a ledger with a row whose type is
\* neither buy nor sell is refused whole: nothing is grouped, no queue built.
C9_InvalidTypeRejected ==
    (\E i \in 1..Len(df) : ~IsBuy(df[i]) /\ ~IsSell(df[i]))
       => /\ holdings = EmptyDict
          /\ current_holdings = EmptyDict
          /\ fifo = <<>>

(***************************************************************************)
(* C11, C12, C15, C16: the holdings returned                               *)
(***************************************************************************)
\* C11 (instrument independence): what get_current_holdings returns for a
\* symbol (its batches, or no entry) is what it returns for the ledger of
\* that symbol's trades alone, in their order; the trades of other symbols,
\* wherever they stand, change nothing of it.
C11_Independence ==
    pc = "ready" =>
       \A s \in Symbols :
          LET alone == get_current_holdings(TradesOf(s))
          IN  /\ DictHas(current_holdings, s) <=> DictHas(alone, s)
              /\ DictHas(current_holdings, s)
                    => current_holdings.vals[s] = alone.vals[s]

\* both symbols are held, the trades of one standing between those of the
\* other
C11_Witness ==
    /\ pc = "ready"
    /\ Len(df) = 3
    /\ df[1].Symbol = df[3].Symbol
    /\ df[2].Symbol # df[1].Symbol
    /\ IsSell(df[3])
    /\ \A s \in Symbols : DictHas(current_holdings, s)

\* the positions of rows at which a sell brings the quantity held to zero
Exits(rows) ==
    {k \in 1..Len(rows) :
        IsSell(rows[k]) /\ Bought(Prefix(rows, k)) - Sold(Prefix(rows, k)) = 0}

Greatest(S) == CHOOSE k \in S : \A m \in S : m <= k

C15_ReturnedIsHeld ==
    \A s \in DOMAIN current_holdings.vals :
       LET lots == current_holdings.vals[s]
       IN  /\ Bought(TradesOf(s)) - Sold(TradesOf(s)) > 0
           /\ lots # <<>>
           /\ \A j \in 1..Len(lots) : lots[j].qty > 0
           /\ SumQty(lots) # 0

\* of two symbols traded, the one whose sells reach its buys is left out and
\* the other alone is returned, after an oversell of its own
C15_Witness ==
    /\ pc = "ready"
    /\ Len(holdings.keys) = 2
    /\ Len(current_holdings.keys) = 1
    /\ ~NoOversell(TradesOf(current_holdings.keys[1]))
    /\ \E s \in Symbols :
          /\ ~DictHas(current_holdings, s)
          /\ Sold(TradesOf(s)) > 0
          /\ Bought(TradesOf(s)) <= Sold(TradesOf(s))

\* C16 (quantity shown against net quantity): for every symbol returned the
\* batches add up to at least the net quantity (buys minus sells), and to
\* exactly the net quantity when, and only when, no sell of its replay asked
\* for more than was held.
C16_ShownAtLeastNet ==
    \A s \in DOMAIN current_holdings.vals :
       LET shown == SumQty(current_holdings.vals[s])
           net == Bought(TradesOf(s)) - Sold(TradesOf(s))
       IN  /\ shown >= net
           /\ shown = net <=> NoOversell(TradesOf(s))

\* the portfolio shows more shares of a symbol than its net quantity
C16_Witness ==
    /\ screen.kind = "table"
    /\ \E k \in 1..Len(screen.table) :
          LET s == screen.table[k].Stock
          IN  /\ ~NoOversell(TradesOf(s))
              /\ screen.table[k].Quantity > Bought(TradesOf(s)) - Sold(TradesOf(s))

(***************************************************************************)
(* C13: a negative profit                                                  *)
(***************************************************************************)
\* C13 (negative profit): for a negative profit_pct and a positive quantity
\* within the quantity held, the call returns, its value is
\* cost x (1 + profit_pct/100) / quantity rounded to two decimals, and that is
\* at most the value at 0 % for the same quantity.
C13_NegativeProfit ==
    calls >= 1 /\ call.profit_pct < 0
       /\ call.qty_to_sell >= 1 /\ call.qty_to_sell <= SumQty(Given)
       => /\ result.raised = ""
          /\ IsRounded(result.value,
                       CostOfOldest(Given, call.qty_to_sell) * (100 + call.profit_pct),
                       100 * call.qty_to_sell)
          /\ \A v \in {CostOfOldest(Given, call.qty_to_sell) \div call.qty_to_sell + e :
                      e \in {0, 1}} :
                IsRounded(v, CostOfOldest(Given, call.qty_to_sell) * 100,
                          100 * call.qty_to_sell)
                   => result.value <= v

\* a price below the break-even one was returned for a loss of 50 %
C13_Witness ==
    /\ calls >= 1
    /\ call.profit_pct = -50
    /\ Len(Given) = 2
    /\ call.qty_to_sell > Given[1].qty
    /\ result.raised = ""
    /\ 2 * result.value < CostOfOldest(Given, call.qty_to_sell)

(***************************************************************************)
(* C14: the quantities of the rows                                         *)
(***************************************************************************)
\* C14 (quantity validation), as claimed: a ledger with a row whose
\* quantity is not positive is refused whole: nothing is grouped, no queue
\* built, no holding returned.
C14_NonPositiveRejected ==
    (\E i \in 1..Len(df) : df[i].Quantity <= 0)
       => /\ holdings = EmptyDict
          /\ current_holdings = EmptyDict
          /\ fifo = <<>>

====
